---- MODULE Spec2Model ----
(***************************************************************************)
(* Dynamic Topic Sentinel Agent: the orchestration core run_agent_task     *)
(* (agent_logic.py), the credential rotator ApiKeyManager (key_manager.py), *)
(* the persistence store (database.py) and the extractors' result shapes   *)
(* (tools.py).                                                             *)
(*                                                                         *)
(* External collaborators are nondeterministic: the search result list,    *)
(* what an extractor returns for a URL, and the outcome of each completion *)
(* attempt (a result, ResourceExhausted, or another exception).            *)
(***************************************************************************)
EXTENDS Integers, Sequences, FiniteSets, TLC

\* ------------------------------------------------------------------ bounds
\* Number of GEMINI_API_KEY_<i> credentials found at start-up (N).
NumKeys == 2
\* Number of distinct URLs the search and the store can hold.
NumUrls == 2
\* Longest search result list considered.
MaxDiscovered == 2

\* ------------------------------------------------------------- value sets
Runs == {1, 2}
Urls == 1..NumUrls
\* Topics and personas as the caller spells them.
Topics == {"AI", "ai"}
DbTopics == {"AI", "ai", "ml"}
Personas == {"marketing_manager", "Marketing_Manager"}
Backends == {"mariadb", "sqlite"}
\* Python's None as a returned value, and "no exception" as an error code.
None == [none |-> TRUE]
\* No credential: no completion attempt was made yet.
NoKey == <<>>
NoError == "NoError"

\* str.lower() on the spellings above.
Lower(s) ==
  CASE s = "AI" -> "ai"
    [] s = "Marketing_Manager" -> "marketing_manager"
    [] OTHER -> s

\* ------------------------------------------------------------ key_manager
\* ApiKeyManager.keys: the credentials in discovery order.
Keys == [i \in 1..NumKeys |-> <<"GEMINI_API_KEY", i>>]

\* ApiKeyManager.__init__: the environments it can find (which of
\* GEMINI_API_KEY_1, GEMINI_API_KEY_2, ... are set) and the keys its loop
\* collects from number i on, stopping at the first one unset.
KeyEnvs == [1..NumKeys + 1 -> BOOLEAN]

RECURSIVE DiscoverFrom(_, _)
DiscoverFrom(env, i) ==
  IF i \in DOMAIN env /\ env[i]
    THEN <<<<"GEMINI_API_KEY", i>>>> \o DiscoverFrom(env, i + 1)
    ELSE <<>>

\* The constructor returns (it raises ValueError on an empty list).
Constructed(env) == DiscoverFrom(env, 1) # <<>>

\* What indexing self.keys past its end raises.
IndexError == <<"IndexError">>

\* get_next_key passing over the credential next in line.
NextKeyIndex_Skip(idx) == (idx + 2) % Len(Keys)

\* get_next_key without the modulo.
NextKeyIndex_NoWrap(idx) == idx + 1

\* get_current_key that answers with the first credential wherever the
\* cursor is.
GetCurrentKey_First(idx) == Keys[1]

\* ApiKeyManager.get_current_key at cursor idx (0-based).
GetCurrentKey(idx) == IF idx \in 0..Len(Keys) - 1 THEN Keys[idx + 1] ELSE IndexError

\* A run start that leaves the cursor where the last run left it.
ResetIndex_Keep(idx) == idx

\* key_manager.current_key_index = 0 at the start of a run.
ResetIndex(idx) == 0

\* get_next_key that forgets to advance.
NextKeyIndex_Stuck(idx) == idx

\* ApiKeyManager.get_next_key: the cursor after rotating.
NextKeyIndex(idx) == (idx + 1) % Len(Keys)

\* The cursor after n calls of get_next_key from c.
RECURSIVE Rotate(_, _)
Rotate(c, n) == IF n = 0 THEN c ELSE Rotate(NextKeyIndex(c), n - 1)

\* ------------------------------------------------------------------ tools
\* Which extractor analyze_content_with_retry dispatches a URL to.
Shape(u) ==
  CASE u % 3 = 1 -> "page"
    [] u % 3 = 2 -> "video"
    [] OTHER -> "pdf"

\* The results each extractor can return, by kind: "text" is the source's
\* text, "could_not" and "failed" the messages with those words, "empty" an
\* empty transcript, "scrape_error" the page scraper's "An error occurred
\* while scraping ..." message.
ExtractKinds(u) ==
  CASE Shape(u) = "page" -> {"text", "could_not", "scrape_error"}
    [] Shape(u) = "video" -> {"text", "empty", "could_not"}
    [] OTHER -> {"text", "could_not", "failed"}

\* The features of a returned string the orchestrator looks at.
Content(kind) ==
  [empty |-> kind = "empty",
   has_could_not |-> kind = "could_not",
   has_failed |-> kind = "failed"]

\* The extractor did not obtain the source's text.
ExtractorFailed(kind) == kind # "text"

\* The usable-content test of analyze_content_with_retry.
Usable(kind) ==
  LET c == Content(kind)
  IN  ~c.empty /\ ~c.has_could_not /\ ~c.has_failed

\* --------------------------------------------------------------- database
\* The first 255 characters of a URL, which is all the MariaDB unique key
\* unique_url_topic (url(255), topic) compares: URLs 1 and 2 agree on them,
\* as do 3 and 4.
Prefix255(u) == (u + 1) \div 2

\* check_if_url_exists comparing the topic as spelled.
CheckIfUrlExists_NoFold(tbl, url, topic) ==
  \E i \in 1..Len(tbl) : tbl[i] = <<url, topic>>

\* check_if_url_exists
CheckIfUrlExists(tbl, url, topic) ==
  \E i \in 1..Len(tbl) : tbl[i] = <<url, Lower(topic)>>

\* The unique key of seen_urls as each backend declares it.
UniqueHit(tbl, be, url, topic) ==
  IF be = "mariadb"
    THEN \E i \in 1..Len(tbl) :
           Prefix255(tbl[i][1]) = Prefix255(url) /\ tbl[i][2] = Lower(topic)
    ELSE \E i \in 1..Len(tbl) : tbl[i] = <<url, Lower(topic)>>

\* The INSERT of add_url: MariaDB raises on a duplicate key, SQLite ignores.
InsertSeenUrl(tbl, be, url, topic) ==
  IF UniqueHit(tbl, be, url, topic)
    THEN [tbl |-> tbl, err |-> IF be = "mariadb" THEN "IntegrityError" ELSE NoError]
    ELSE [tbl |-> Append(tbl, <<url, Lower(topic)>>), err |-> NoError]

\* add_url that records nothing.
AddUrl_Skip(tbl, be, url, topic) == [tbl |-> tbl, err |-> NoError]

\* add_url
AddUrl(tbl, be, url, topic) ==
  IF CheckIfUrlExists(tbl, url, topic)
    THEN [tbl |-> tbl, err |-> NoError]
    ELSE InsertSeenUrl(tbl, be, url, topic)

\* Subsequence of tbl's URLs recorded under topic, in row order.
RECURSIVE UrlsOf(_, _)
UrlsOf(tbl, t) ==
  IF tbl = <<>> THEN <<>>
  ELSE IF Head(tbl)[2] = t
         THEN <<Head(tbl)[1]>> \o UrlsOf(Tail(tbl), t)
         ELSE UrlsOf(Tail(tbl), t)

\* get_seen_urls_for_topic
GetSeenUrlsForTopic(tbl, topic) == UrlsOf(tbl, Lower(topic))

\* json.dumps / json.loads of the sources list.
JsonDumps(srcs) == [json |-> "list", items |-> srcs]
JsonLoads(text) == IF text.json = "list" THEN text.items ELSE <<>>

\* Rows of synthesis_cache under a key.
CacheRows(cache, topic, persona) ==
  {row \in cache : row.topic = Lower(topic) /\ row.persona = Lower(persona)}

\* get_cached_report looking the key up as spelled.
GetCachedReport_NoFold(cache, topic, persona) ==
  LET rows == {row \in cache : row.topic = topic /\ row.persona = persona}
  IN  IF rows = {} THEN None
      ELSE LET row == CHOOSE x \in rows : TRUE
           IN  [report |-> row.report, sources |-> JsonLoads(row.sources)]

\* get_cached_report
GetCachedReport(cache, topic, persona) ==
  LET rows == CacheRows(cache, topic, persona)
  IN  IF rows = {} THEN None
      ELSE LET row == CHOOSE x \in rows : TRUE
           IN  [report |-> row.report, sources |-> JsonLoads(row.sources)]

\* cache_report whose ON DUPLICATE KEY UPDATE names the report only.
CacheReport_ReportOnly(cache, topic, persona, report, sources) ==
  LET old == CacheRows(cache, topic, persona)
  IN  IF old = {}
        THEN cache \cup {[topic |-> Lower(topic), persona |-> Lower(persona),
                          report |-> report, sources |-> JsonDumps(sources)]}
        ELSE (cache \ old) \cup {[row EXCEPT !.report = report] : row \in old}

\* cache_report: one upsert statement.
CacheReport(cache, topic, persona, report, sources) ==
  (cache \ CacheRows(cache, topic, persona))
    \cup {[topic |-> Lower(topic), persona |-> Lower(persona),
           report |-> report, sources |-> JsonDumps(sources)]}

\* ------------------------------------------------------------ agent_logic
\* PERSONA_PROMPTS.get(persona, PERSONA_PROMPTS["default"])
PersonaInstructions(persona) ==
  IF persona = "marketing_manager" THEN "executive briefing" ELSE "objective overview"

\* The summary block appended for a URL.
Summary(url) == [source |-> url]

\* What the synthesis agent returns for a prompt.
FinalReport(persona, summaries) ==
  [kind |-> "final", instructions |-> PersonaInstructions(persona), summaries |-> summaries]

NoInfoReport == [kind |-> "no_info"]
ExhaustedReport == [kind |-> "synthesis_exhausted"]
ErrorReport == [kind |-> "synthesis_error"]

\* A retry loop one iteration short.
LoopExhausted_Early(n) == n >= Len(Keys) - 1

\* for _ in range(len(key_manager.keys)): the loop is over after n iterations.
LoopExhausted(n) == n >= Len(Keys)

\* Retry loops that rotate on every failure.
Retried_Any(outcome) == outcome # "ok"

\* except ResourceExhausted: the one failure that rotates the key and retries.
Retried(outcome) == outcome = "quota"

\* Position of a credential in key_manager.keys (0-based).
IndexOfKey(key) == key[2] - 1

\* Synthesis beginning on the first credential.
SynthesisKey_First(idx) == Keys[1]

\* create_gemini_llm(key_manager.get_current_key(), temperature=0.1): the
\* credential the synthesis handle is first bound to.
SynthesisKey(idx) == GetCurrentKey(idx)

\* The dicts run_agent_task returns.
SynthesizedResult(report, srcs) == [report |-> report, sources |-> srcs]
\* The exhausted-keys result dropping the sources.
ExhaustedResult_NoSources(srcs) == [report |-> ExhaustedReport, sources |-> <<>>]
ExhaustedResult(srcs) == [report |-> ExhaustedReport, sources |-> srcs]
\* The error result with the sources left out.
ErrorResult_NoSources(srcs) == [report |-> ErrorReport, sources |-> <<>>]
ErrorResult(srcs) == [report |-> ErrorReport, sources |-> srcs]
NoInfoResult == [report |-> NoInfoReport, sources |-> <<>>]

\* Outcomes of one completion attempt made with credential cred, under the
\* provider behaviour env.
Completion(env, cred) ==
  CASE env = "last_only" -> IF cred = Keys[Len(Keys)] THEN {"ok"} ELSE {"quota"}
    [] env = "all_quota" -> {"quota"}
    [] OTHER -> {"ok", "quota", "error"}

ProviderEnvs == {"any", "last_only", "all_quota"}

\* Search result lists.
SearchResults ==
  UNION {[1..n -> Urls] : n \in 0..MaxDiscovered}

VARIABLES
  backend,          \* which store answers: "mariadb" or "sqlite"
  seen_urls,        \* table seen_urls: rows <<url, topic>> in insertion order
  synthesis_cache,  \* table synthesis_cache: set of rows
  current_key_index,\* key_manager.current_key_index
  pc,               \* per run: where run_agent_task is
  topic, persona,   \* per run: the arguments
  provider,         \* per run: how the completion provider behaves
  urls,             \* per run: the list process_urls iterates, from the current URL on
  pass,             \* per run: "discovery" or "fallback"
  content,          \* per run: content_to_analyze of the current URL (its kind)
  tries,            \* per run: completion attempts made in the current retry loop
  llm,              \* per run: credential the completion handle is bound to
  summary_text,     \* per run: what analyze_content_with_retry returned
  all_summaries,    \* per run
  successful_urls,  \* per run
  seen_before,      \* per run: the topic's seen URLs when the call began
  extracted,        \* per run: some discovered URL's text was obtained
  summarized,       \* per run: some discovered URL was summarized
  fetched,          \* per run: <<pass, url>> of every extraction made
  first_key,        \* per run: credential of the run's first completion attempt
  last_outcome,     \* per run: how the last attempt of the current retry loop ended
  loop_key,         \* per run: credential the current retry loop began with
  working_key,      \* per run: credential of the latest successful summary attempt
  since_ok,         \* per run: rotations since that attempt (since the run began,
                    \* if there was none), counted modulo the number of keys
  entry_index,      \* per run: where the call found the cursor, kept until the
                    \* run's first completion attempt or its return
  db_call,          \* the last direct call of a database.py function
  add_call,         \* per caller: where a call of add_url is, and its arguments
  result,           \* per run: the returned dict, or None
  how               \* per run: how the last call ended

vars == <<backend, seen_urls, synthesis_cache, current_key_index, pc, topic,
          persona, provider, urls, pass, content, tries, llm, summary_text,
          all_summaries, successful_urls, seen_before, extracted, summarized,
          fetched, first_key, last_outcome, loop_key, working_key, since_ok,
          entry_index,
          result, how,
          db_call, add_call>>

store == <<backend, seen_urls, synthesis_cache, db_call, add_call>>
locals == <<urls, pass, content, tries, llm, summary_text, all_summaries,
            successful_urls, seen_before, extracted, summarized, fetched,
            first_key, last_outcome, loop_key, working_key, since_ok>>

Init ==
  /\ backend \in Backends
  /\ seen_urls = <<>>
  /\ synthesis_cache = {}
  /\ current_key_index = 0
  /\ pc = [r \in Runs |-> "idle"]
  /\ topic = [r \in Runs |-> "ai"]
  /\ persona = [r \in Runs |-> "marketing_manager"]
  /\ provider = [r \in Runs |-> "any"]
  /\ urls = [r \in Runs |-> <<>>]
  /\ pass = [r \in Runs |-> "discovery"]
  /\ content = [r \in Runs |-> "empty"]
  /\ tries = [r \in Runs |-> 0]
  /\ llm = [r \in Runs |-> Keys[1]]
  /\ summary_text = [r \in Runs |-> None]
  /\ all_summaries = [r \in Runs |-> <<>>]
  /\ successful_urls = [r \in Runs |-> <<>>]
  /\ seen_before = [r \in Runs |-> <<>>]
  /\ extracted = [r \in Runs |-> FALSE]
  /\ summarized = [r \in Runs |-> FALSE]
  /\ db_call = [op |-> "none"]
  /\ add_call = [c \in Runs |-> [pc |-> "idle", url |-> 1, topic |-> "ai"]]
  /\ fetched = [r \in Runs |-> {}]
  /\ first_key = [r \in Runs |-> NoKey]
  /\ last_outcome = [r \in Runs |-> "none"]
  /\ loop_key = [r \in Runs |-> NoKey]
  /\ working_key = [r \in Runs |-> NoKey]
  /\ since_ok = [r \in Runs |-> 0]
  /\ entry_index = [r \in Runs |-> 0]
  /\ result = [r \in Runs |-> None]
  /\ how = [r \in Runs |-> "none"]

\* run_agent_task returns res.
Return(r, res, kind) ==
  /\ pc' = [pc EXCEPT ![r] = "done"]
  /\ result' = [result EXCEPT ![r] = res]
  /\ how' = [how EXCEPT ![r] = kind]

\* An exception leaves run_agent_task.
Raise(r) ==
  /\ pc' = [pc EXCEPT ![r] = "raised"]
  /\ result' = [result EXCEPT ![r] = None]
  /\ how' = [how EXCEPT ![r] = "raised"]

Callable(r) == pc[r] \in {"idle", "done", "raised"}

\* run_agent_task is called and finds a cached report.
CacheHit(r, t, p) ==
  /\ Callable(r)
  /\ GetCachedReport(synthesis_cache, t, p) # None
  /\ topic' = [topic EXCEPT ![r] = t]
  /\ persona' = [persona EXCEPT ![r] = p]
  /\ Return(r, GetCachedReport(synthesis_cache, t, p), "cache_hit")
  /\ UNCHANGED <<store, current_key_index, provider, locals, entry_index>>

\* run_agent_task is called, misses the cache, resets the cursor and builds
\* the analysis handle.
Begin(r, t, p) ==
  /\ Callable(r)
  /\ GetCachedReport(synthesis_cache, t, p) = None
  /\ topic' = [topic EXCEPT ![r] = t]
  /\ persona' = [persona EXCEPT ![r] = p]
  /\ provider' = [provider EXCEPT ![r] = "any"]
  /\ current_key_index' = ResetIndex(current_key_index)
  /\ llm' = [llm EXCEPT ![r] = GetCurrentKey(ResetIndex(current_key_index))]
  /\ urls' = [urls EXCEPT ![r] = <<>>]
  /\ pass' = [pass EXCEPT ![r] = "discovery"]
  /\ content' = [content EXCEPT ![r] = "empty"]
  /\ summary_text' = [summary_text EXCEPT ![r] = None]
  /\ all_summaries' = [all_summaries EXCEPT ![r] = <<>>]
  /\ successful_urls' = [successful_urls EXCEPT ![r] = <<>>]
  /\ seen_before' = [seen_before EXCEPT ![r] = GetSeenUrlsForTopic(seen_urls, t)]
  /\ extracted' = [extracted EXCEPT ![r] = FALSE]
  /\ summarized' = [summarized EXCEPT ![r] = FALSE]
  /\ fetched' = [fetched EXCEPT ![r] = {}]
  /\ first_key' = [first_key EXCEPT ![r] = NoKey]
  /\ last_outcome' = [last_outcome EXCEPT ![r] = "none"]
  /\ loop_key' = [loop_key EXCEPT ![r] = NoKey]
  /\ working_key' = [working_key EXCEPT ![r] = NoKey]
  /\ since_ok' = [since_ok EXCEPT ![r] = 0]
  /\ entry_index' = [entry_index EXCEPT ![r] = current_key_index]
  /\ tries' = [tries EXCEPT ![r] = 0]
  /\ pc' = [pc EXCEPT ![r] = "search"]
  /\ result' = [result EXCEPT ![r] = None]
  /\ how' = [how EXCEPT ![r] = "running"]
  /\ UNCHANGED store

\* google_search_tool returns found; env is how the completion provider
\* will behave for this run.
Search(r, found, env) ==
  /\ pc[r] = "search"
  /\ urls' = [urls EXCEPT ![r] = found]
  /\ provider' = [provider EXCEPT ![r] = env]
  /\ pc' = [pc EXCEPT ![r] = "process"]
  /\ UNCHANGED <<store, current_key_index, topic, persona, pass, content, tries,
                 llm, summary_text, all_summaries, successful_urls, seen_before, extracted, summarized, fetched,
                 result, how, first_key, last_outcome, loop_key, working_key, entry_index, since_ok>>

InSeq(x, s) == \E i \in 1..Len(s) : s[i] = x

\* process_urls skips a URL already in successful_urls.
SkipUrl(r) ==
  /\ pc[r] = "process"
  /\ urls[r] # <<>>
  /\ InSeq(Head(urls[r]), successful_urls[r])
  /\ urls' = [urls EXCEPT ![r] = Tail(urls[r])]
  /\ UNCHANGED <<store, current_key_index, pc, topic, persona, provider, pass,
                 content, tries, llm, summary_text, all_summaries,
                 successful_urls, seen_before, extracted, summarized, fetched, result, how, first_key, last_outcome, loop_key, working_key, entry_index, since_ok>>

\* analyze_content_with_retry up to the retry loop: extraction, the usable
\* test and add_url.
FetchUrl(r, kind) ==
  LET url == Head(urls[r])
      added == AddUrl(seen_urls, backend, url, topic[r])
  IN  /\ pc[r] = "process"
      /\ urls[r] # <<>>
      /\ ~InSeq(url, successful_urls[r])
      /\ kind \in ExtractKinds(url)
      /\ fetched' = [fetched EXCEPT ![r] = @ \cup {<<pass[r], url>>}]
      /\ extracted' = [extracted EXCEPT ![r] =
                         @ \/ (pass[r] = "discovery" /\ ~ExtractorFailed(kind))]
      /\ content' = [content EXCEPT ![r] = kind]
      /\ IF ~Usable(kind)
           THEN /\ pc' = [pc EXCEPT ![r] = "returned"]
                /\ UNCHANGED <<seen_urls, result, how>>
           ELSE IF added.err # NoError
                  THEN UNCHANGED seen_urls /\ Raise(r)
                  ELSE /\ seen_urls' = added.tbl
                       /\ pc' = [pc EXCEPT ![r] = "summarize"]
                       /\ UNCHANGED <<result, how>>
      /\ loop_key' = [loop_key EXCEPT ![r] =
                        IF Usable(kind) /\ added.err = NoError THEN llm[r] ELSE @]
      /\ UNCHANGED <<backend, synthesis_cache, db_call, add_call, current_key_index, topic,
                     persona, provider, urls, pass, tries, llm, summary_text,
                     all_summaries, successful_urls, seen_before, summarized, first_key, last_outcome, working_key, entry_index, since_ok>>

\* One iteration of the summary retry loop.
Summarize(r, outcome) ==
  /\ pc[r] = "summarize"
  /\ outcome \in Completion(provider[r], llm[r])
  /\ tries' = [tries EXCEPT ![r] = @ + 1]
  /\ entry_index' = [entry_index EXCEPT ![r] = 0]
  /\ first_key' = [first_key EXCEPT ![r] = IF @ = NoKey THEN llm[r] ELSE @]
  /\ last_outcome' = [last_outcome EXCEPT ![r] = outcome]
  /\ working_key' = [working_key EXCEPT ![r] = IF outcome = "ok" THEN llm[r] ELSE @]
  /\ since_ok' = [since_ok EXCEPT ![r] =
                    IF outcome = "ok" THEN 0
                    ELSE IF Retried(outcome) THEN (@ + 1) % Len(Keys) ELSE @]
  /\ CASE outcome = "ok" ->
            /\ summary_text' = [summary_text EXCEPT ![r] = Summary(Head(urls[r]))]
            /\ pc' = [pc EXCEPT ![r] = "returned"]
            /\ UNCHANGED <<current_key_index, llm>>
       [] Retried(outcome) ->
            /\ current_key_index' = NextKeyIndex(current_key_index)
            /\ llm' = [llm EXCEPT ![r] = GetCurrentKey(NextKeyIndex(current_key_index))]
            /\ pc' = [pc EXCEPT ![r] =
                        IF LoopExhausted(tries[r] + 1) THEN "returned" ELSE "summarize"]
            /\ UNCHANGED summary_text
       [] OTHER ->
            /\ pc' = [pc EXCEPT ![r] = "returned"]
            /\ UNCHANGED <<current_key_index, llm, summary_text>>
  /\ UNCHANGED <<store, topic, persona, provider, urls, pass, content,
                 all_summaries, successful_urls, seen_before, extracted, summarized, fetched, result, how, loop_key>>

\* process_urls takes what analyze_content_with_retry returned and moves on.
Collect(r) ==
  /\ pc[r] = "returned"
  /\ IF summary_text[r] # None
       THEN /\ all_summaries' = [all_summaries EXCEPT ![r] = Append(@, summary_text[r])]
            /\ successful_urls' = [successful_urls EXCEPT ![r] = Append(@, Head(urls[r]))]
       ELSE UNCHANGED <<all_summaries, successful_urls>>
  /\ summarized' = [summarized EXCEPT ![r] =
                      @ \/ (pass[r] = "discovery" /\ summary_text[r] # None)]
  /\ urls' = [urls EXCEPT ![r] = Tail(urls[r])]
  /\ summary_text' = [summary_text EXCEPT ![r] = None]
  /\ content' = [content EXCEPT ![r] = "empty"]
  /\ tries' = [tries EXCEPT ![r] = 0]
  /\ last_outcome' = [last_outcome EXCEPT ![r] = "none"]
  /\ loop_key' = [loop_key EXCEPT ![r] = NoKey]
  /\ pc' = [pc EXCEPT ![r] = "process"]
  /\ UNCHANGED <<store, current_key_index, topic, persona, provider, pass, llm,
                 seen_before, extracted, fetched, result, how, first_key, working_key, entry_index, since_ok>>

\* A fallback that does not look at all_summaries.
StartFallback_Always(r) ==
  /\ pc[r] = "process"
  /\ urls[r] = <<>>
  /\ pass[r] = "discovery"
  /\ GetSeenUrlsForTopic(seen_urls, topic[r]) # <<>>
  /\ urls' = [urls EXCEPT ![r] = GetSeenUrlsForTopic(seen_urls, topic[r])]
  /\ pass' = [pass EXCEPT ![r] = "fallback"]
  /\ UNCHANGED <<store, current_key_index, pc, topic, persona, provider, content,
                 tries, llm, summary_text, all_summaries, successful_urls,
                 seen_before, extracted, summarized, fetched, result, how, first_key, last_outcome, loop_key, working_key, entry_index, since_ok>>

\* The discovery pass produced no summary and the topic has seen URLs.
StartFallback(r) ==
  /\ pc[r] = "process"
  /\ urls[r] = <<>>
  /\ pass[r] = "discovery"
  /\ all_summaries[r] = <<>>
  /\ GetSeenUrlsForTopic(seen_urls, topic[r]) # <<>>
  /\ urls' = [urls EXCEPT ![r] = GetSeenUrlsForTopic(seen_urls, topic[r])]
  /\ pass' = [pass EXCEPT ![r] = "fallback"]
  /\ UNCHANGED <<store, current_key_index, pc, topic, persona, provider, content,
                 tries, llm, summary_text, all_summaries, successful_urls,
                 seen_before, extracted, summarized, fetched, result, how, first_key, last_outcome, loop_key, working_key, entry_index, since_ok>>

\* process_urls is over for the run (no fallback, or the fallback is done).
PassesOver(r) ==
  /\ pc[r] = "process"
  /\ urls[r] = <<>>
  /\ \/ pass[r] = "fallback"
     \/ all_summaries[r] # <<>>
     \/ GetSeenUrlsForTopic(seen_urls, topic[r]) = <<>>

\* A no-information return that caches what it returns.
ReturnNoInfo_Cached(r) ==
  /\ PassesOver(r)
  /\ all_summaries[r] = <<>>
  /\ synthesis_cache' =
       CacheReport(synthesis_cache, topic[r], persona[r], NoInfoReport, <<>>)
  /\ entry_index' = [entry_index EXCEPT ![r] = 0]
  /\ Return(r, NoInfoResult, "no_info")
  /\ UNCHANGED <<backend, seen_urls, db_call, add_call, current_key_index, topic, persona,
                 provider, locals>>

\* No summary at all: the no-information report, nothing cached.
ReturnNoInfo(r) ==
  /\ PassesOver(r)
  /\ all_summaries[r] = <<>>
  /\ entry_index' = [entry_index EXCEPT ![r] = 0]
  /\ Return(r, NoInfoResult, "no_info")
  /\ UNCHANGED <<store, current_key_index, topic, persona, provider, locals>>

\* Synthesis begins with a handle on the current key.
StartSynthesis(r) ==
  /\ PassesOver(r)
  /\ all_summaries[r] # <<>>
  /\ llm' = [llm EXCEPT ![r] = SynthesisKey(current_key_index)]
  /\ tries' = [tries EXCEPT ![r] = 0]
  /\ last_outcome' = [last_outcome EXCEPT ![r] = "none"]
  /\ loop_key' = [loop_key EXCEPT ![r] = SynthesisKey(current_key_index)]
  /\ pc' = [pc EXCEPT ![r] = "synthesize"]
  /\ UNCHANGED <<store, current_key_index, topic, persona, provider, urls, pass,
                 content, summary_text, all_summaries, successful_urls, seen_before, extracted, summarized, fetched,
                 result, how, first_key, working_key, entry_index, since_ok>>

\* One iteration of the synthesis retry loop. "error" is any exception other
\* than ResourceExhausted raised inside the try, cache_report's included.
Synthesize(r, outcome) ==
  /\ pc[r] = "synthesize"
  /\ outcome \in Completion(provider[r], llm[r])
  /\ tries' = [tries EXCEPT ![r] = @ + 1]
  /\ first_key' = [first_key EXCEPT ![r] = IF @ = NoKey THEN llm[r] ELSE @]
  /\ last_outcome' = [last_outcome EXCEPT ![r] = outcome]
  /\ since_ok' = [since_ok EXCEPT ![r] =
                    IF outcome # "ok" /\ Retried(outcome) THEN (@ + 1) % Len(Keys) ELSE @]
  /\ CASE outcome = "ok" ->
            /\ synthesis_cache' =
                 CacheReport(synthesis_cache, topic[r], persona[r],
                             FinalReport(persona[r], all_summaries[r]),
                             successful_urls[r])
            /\ Return(r, SynthesizedResult(FinalReport(persona[r], all_summaries[r]),
                                           successful_urls[r]), "synthesized")
            /\ UNCHANGED <<current_key_index, llm>>
       [] Retried(outcome) ->
            /\ current_key_index' = NextKeyIndex(current_key_index)
            /\ llm' = [llm EXCEPT ![r] = GetCurrentKey(NextKeyIndex(current_key_index))]
            /\ IF LoopExhausted(tries[r] + 1)
                 THEN Return(r, ExhaustedResult(successful_urls[r]), "synthesis_exhausted")
                 ELSE UNCHANGED <<pc, result, how>>
            /\ UNCHANGED synthesis_cache
       [] OTHER ->
            /\ Return(r, ErrorResult(successful_urls[r]), "synthesis_error")
            /\ UNCHANGED <<synthesis_cache, current_key_index, llm>>
  /\ UNCHANGED <<backend, seen_urls, db_call, add_call, topic, persona, provider, urls, pass, content,
                 summary_text, all_summaries, successful_urls, seen_before, extracted, summarized, fetched, loop_key, working_key, entry_index>>

\* ------------------------------------------------- database.py, called directly
\* Source lists and the reports synthesized from them.
RECURSIVE SummariesOf(_)
SummariesOf(srcs) ==
  IF srcs = <<>> THEN <<>> ELSE <<Summary(Head(srcs))>> \o SummariesOf(Tail(srcs))

RECURSIVE SourcesOf(_)
SourcesOf(summaries) ==
  IF summaries = <<>> THEN <<>>
  ELSE <<Head(summaries).source>> \o SourcesOf(Tail(summaries))

\* Lists without repetition, as successful_urls is, the empty one included.
SourceLists ==
  {srcs \in UNION {[1..n -> Urls] : n \in 0..MaxDiscovered} :
     \A i, j \in 1..Len(srcs) : srcs[i] = srcs[j] => i = j}

runs_idle == <<current_key_index, pc, topic, persona, provider, locals, entry_index,
               result, how>>

\* add_url(url, t)
DbAddUrl(url, t) ==
  LET added == AddUrl(seen_urls, backend, url, t)
  IN  /\ seen_urls' = added.tbl
      /\ db_call' = [op |-> "add_url", url |-> url, topic |-> t,
                     existed |-> \E i \in 1..Len(seen_urls) :
                                   seen_urls[i] = <<url, Lower(t)>>,
                     rows_before |-> Len(seen_urls), err |-> added.err]
      /\ UNCHANGED <<backend, synthesis_cache, add_call, runs_idle>>

\* cache_report(t, p, report, sources) with a report written from sources.
DbCacheReport(t, p, srcs) ==
  /\ synthesis_cache' =
       CacheReport(synthesis_cache, t, p, FinalReport(p, SummariesOf(srcs)), srcs)
  /\ db_call' = [op |-> "cache_report", topic |-> t, persona |-> p,
                 report |-> FinalReport(p, SummariesOf(srcs)), sources |-> srcs,
                 replaced |-> CacheRows(synthesis_cache, t, p) # {}]
  /\ UNCHANGED <<backend, seen_urls, add_call, runs_idle>>

\* get_cached_report(t, p)
DbGetCachedReport(t, p) ==
  /\ db_call' = [op |-> "get_cached_report", topic |-> t, persona |-> p,
                 ret |-> GetCachedReport(synthesis_cache, t, p)]
  /\ UNCHANGED <<backend, seen_urls, synthesis_cache, add_call, runs_idle>>

\* add_url by caller c, first statement: check_if_url_exists on its own
\* connection; a pair found recorded ends the call.
AddUrlCheck(c, url, t) ==
  /\ add_call[c].pc \in {"idle", "done", "raised"}
  /\ add_call' = [add_call EXCEPT ![c] =
                    [pc |-> IF CheckIfUrlExists(seen_urls, url, t) THEN "done" ELSE "insert",
                     url |-> url, topic |-> t]]
  /\ UNCHANGED <<backend, seen_urls, synthesis_cache, db_call, runs_idle>>

\* add_url by caller c, second statement: the INSERT and its commit.
AddUrlInsert(c) ==
  LET ins == InsertSeenUrl(seen_urls, backend, add_call[c].url, add_call[c].topic)
  IN  /\ add_call[c].pc = "insert"
      /\ seen_urls' = ins.tbl
      /\ add_call' = [add_call EXCEPT ![c].pc =
                        IF ins.err = NoError THEN "done" ELSE "raised"]
      /\ UNCHANGED <<backend, synthesis_cache, db_call, runs_idle>>

\* URLs that differ within their first 255 characters.
ShortUrls == {u \in Urls : u % 2 = 1}

\* Two callers of add_url, their statements interleaved in any order.
NextAddUrlRace ==
  \E c \in Runs :
    \/ \E url \in ShortUrls, t \in DbTopics : AddUrlCheck(c, url, t)
    \/ AddUrlInsert(c)

SpecAddUrlRace == Init /\ [][NextAddUrlRace]_vars

\* Any sequence of add_url calls.
NextSeenUrls == \E url \in Urls, t \in DbTopics : DbAddUrl(url, t)

SpecSeenUrls == Init /\ [][NextSeenUrls]_vars

\* Any sequence of cache writes and reads, by any number of callers: each
\* call is one SQL statement.
NextCache ==
  \/ \E t \in DbTopics, p \in Personas, srcs \in SourceLists : DbCacheReport(t, p, srcs)
  \/ \E t \in DbTopics, p \in Personas : DbGetCachedReport(t, p)

SpecCache == Init /\ [][NextCache]_vars

\* One caller at a time: the program serving requests one after another.
Next ==
  \/ \E t \in Topics, p \in Personas : CacheHit(1, t, p)
  \/ \E t \in Topics, p \in Personas : Begin(1, t, p)
  \/ \E found \in SearchResults, env \in ProviderEnvs : Search(1, found, env)
  \/ SkipUrl(1)
  \/ \E kind \in {"text", "empty", "could_not", "failed", "scrape_error"} :
       FetchUrl(1, kind)
  \/ \E o \in {"ok", "quota", "error"} : Summarize(1, o)
  \/ Collect(1)
  \/ StartFallback(1)
  \/ ReturnNoInfo(1)
  \/ StartSynthesis(1)
  \/ \E o \in {"ok", "quota", "error"} : Synthesize(1, o)

Spec == Init /\ [][Next]_vars

\* ------------------------------------------------ two requests in progress
\* The development server of app.run handles each request on its own thread,
\* and every thread calls run_agent_task on the one module-level key_manager.
\* Each of the two requests is made once; each search returns nothing, the
\* first URL, or the first URL twice.
FewResults == {<<>>, <<1>>, <<1, 1>>}

InProgress(r) == ~Callable(r)

NextConcurrent ==
  \E r \in Runs :
    \/ pc[r] = "idle" /\ CacheHit(r, "ai", "marketing_manager")
    \/ pc[r] = "idle" /\ Begin(r, "ai", "marketing_manager")
    \/ \E found \in FewResults : Search(r, found, "any")
    \/ SkipUrl(r)
    \/ \E kind \in {"text", "empty", "could_not", "failed", "scrape_error"} :
         FetchUrl(r, kind)
    \/ \E o \in {"ok", "quota", "error"} : Summarize(r, o)
    \/ Collect(r)
    \/ StartFallback(r)
    \/ ReturnNoInfo(r)
    \/ StartSynthesis(r)
    \/ \E o \in {"ok", "quota", "error"} : Synthesize(r, o)

SpecConcurrent == Init /\ [][NextConcurrent]_vars

\* =================================================================== claims

\* C1: when a call ended by caching its report, the next call with the same
\* topic and persona returns the same report and sources, and changes neither
\* the stores, nor the key cursor, nor any of the run's working state (no
\* search, no extraction, no completion attempt).
C1_SecondCallIdempotent ==
  [][(/\ pc[1] = "done"
      /\ how[1] = "synthesized"
      /\ how'[1] # "synthesized"
      /\ topic'[1] = topic[1]
      /\ persona'[1] = persona[1])
     => (/\ how'[1] = "cache_hit"
         /\ pc'[1] = "done"
         /\ result'[1] = result[1]
         /\ UNCHANGED <<store, current_key_index, locals>>)]_vars

C1_Witness ==
  /\ pc[1] = "done"
  /\ how[1] = "cache_hit"
  /\ topic[1] = "AI"
  /\ persona[1] = "Marketing_Manager"
  /\ Len(result[1].sources) >= 2

\* C2: a run that ends with no summary after both passes returns the
\* no-information report with no sources and leaves no cache record under its
\* key, so that the same call misses the cache again.
C2_NoResultNotCached ==
  \A r \in Runs :
    (pc[r] = "done" /\ how[r] # "cache_hit" /\ all_summaries[r] = <<>>)
      => /\ how[r] = "no_info"
         /\ result[r].report.kind = "no_info"
         /\ result[r].sources = <<>>
         /\ GetCachedReport(synthesis_cache, topic[r], persona[r]) = None

C2_Witness ==
  /\ pc[1] = "done"
  /\ how[1] = "no_info"
  /\ pass[1] = "fallback"
  /\ Cardinality(fetched[1]) >= 2

\* C3: a run in which no discovered URL's text was obtained, called when the
\* topic had seen URLs, has fetched every one of those URLs when it returns.
C3_FallbackFetchesSeen ==
  \A r \in Runs :
    (pc[r] = "done" /\ how[r] # "cache_hit" /\ ~extracted[r])
      => \A i \in 1..Len(seen_before[r]) :
           \E ps \in {"discovery", "fallback"} : <<ps, seen_before[r][i]>> \in fetched[r]

\* C4 as claimed: once the text of a discovered URL was obtained, the fallback
\* pass fetches none of the URLs the topic had seen.
C4_ExtractionSuppressesFallback ==
  \A r \in Runs :
    extracted[r]
      => \A i \in 1..Len(seen_before[r]) : <<"fallback", seen_before[r][i]>> \notin fetched[r]

\* C4 as amended: once a discovered URL was summarized, the run has no fallback
\* pass and the fallback fetches no URL.
C4_SummarySuppressesFallback ==
  \A r \in Runs :
    summarized[r]
      => /\ pass[r] = "discovery"
         /\ \A u \in Urls : <<"fallback", u>> \notin fetched[r]

C4_Witness ==
  /\ pc[1] = "done"
  /\ how[1] = "synthesized"
  /\ summarized[1]
  /\ \E i \in 1..Len(seen_before[1]) : ~InSeq(seen_before[1][i], successful_urls[1])

\* C5 as claimed: when credentials 1..N-1 signal quota-exhausted and credential
\* N succeeds, every summary call and the synthesis call succeed after exactly
\* N attempts with the cursor at N-1.
C5_EveryCallTakesN ==
  \A r \in Runs :
    (/\ provider[r] = "last_only"
     /\ \/ pc[r] = "returned" /\ summary_text[r] # None
        \/ pc[r] = "done" /\ how[r] = "synthesized")
      => tries[r] = NumKeys /\ current_key_index = NumKeys - 1

\* C5 as amended: when credentials 1..N-1 signal quota-exhausted and credential
\* N succeeds, every summary call on usable content and the synthesis call
\* succeed with the cursor at N-1; the first summary call of the run takes
\* exactly N attempts, and every later call exactly one.
C5_RotationReachesWorkingKey ==
  \A r \in Runs :
    provider[r] = "last_only"
      => /\ (pc[r] = "returned" /\ Usable(content[r]))
              => /\ summary_text[r] # None
                 /\ current_key_index = NumKeys - 1
                 /\ tries[r] = IF all_summaries[r] = <<>> THEN NumKeys ELSE 1
         /\ (pc[r] = "done" /\ how[r] \notin {"cache_hit", "no_info"})
              => /\ how[r] = "synthesized"
                 /\ current_key_index = NumKeys - 1
                 /\ tries[r] = 1

C5_Witness ==
  /\ provider[1] = "last_only"
  /\ pc[1] = "returned"
  /\ summary_text[1] # None
  /\ all_summaries[1] = <<>>
  /\ tries[1] = NumKeys
  /\ current_key_index = NumKeys - 1

\* C6: when every completion attempt signals quota-exhausted, the summary call
\* for a URL with usable content ends after exactly N attempts without a
\* summary, nothing is recorded in all_summaries or successful_urls, and the
\* run is still in its URL loop.
C6_ExhaustionAbandonsUrl ==
  \A r \in Runs :
    provider[r] = "all_quota"
      => /\ pc[r] = "summarize" => tries[r] < NumKeys
         /\ (pc[r] = "returned" /\ Usable(content[r]))
              => tries[r] = NumKeys /\ summary_text[r] = None
         /\ pc[r] \in {"process", "summarize", "returned"}
              => all_summaries[r] = <<>> /\ successful_urls[r] = <<>>

C6_Witness ==
  /\ provider[1] = "all_quota"
  /\ pc[1] = "returned"
  /\ Usable(content[1])
  /\ tries[1] = NumKeys
  /\ Len(urls[1]) >= 2

\* C7: a run whose synthesis loop ran out of keys made exactly N synthesis
\* attempts, returns the failure report with the URLs it summarized, in order,
\* as sources, and leaves no cache record under its key.
C7_SynthesisExhaustion ==
  \A r \in Runs :
    /\ pc[r] = "synthesize" => tries[r] < NumKeys /\ all_summaries[r] # <<>>
    /\ (pc[r] = "done" /\ how[r] = "synthesis_exhausted")
         => /\ tries[r] = NumKeys
            /\ result[r].report.kind = "synthesis_exhausted"
            /\ result[r].sources = successful_urls[r]
            /\ result[r].sources = SourcesOf(all_summaries[r])
            /\ result[r].sources # <<>>
            /\ GetCachedReport(synthesis_cache, topic[r], persona[r]) = None

C7_Witness ==
  /\ pc[1] = "done"
  /\ how[1] = "synthesis_exhausted"
  /\ Len(result[1].sources) >= 2

\* C8: seen_urls never holds two rows for one (url, case-folded topic) pair,
\* and add_url for a pair already recorded raises nothing and adds no row.
C8_SeenUrlsUnique ==
  /\ \A i, j \in 1..Len(seen_urls) : seen_urls[i] = seen_urls[j] => i = j
  /\ (db_call.op = "add_url" /\ db_call.existed)
       => db_call.err = NoError /\ Len(seen_urls) = db_call.rows_before

C8_Witness ==
  /\ db_call.op = "add_url"
  /\ db_call.existed
  /\ db_call.topic = "AI"
  /\ Len(seen_urls) >= 2

\* C9: the cache holds at most one row per case-folded key, every row pairs a
\* report with the sources it was written with, right after cache_report the
\* key's only row reads back as exactly the report and sources just written,
\* and every read returns a report with its own sources.
C9_UpsertAtomic ==
  /\ \A a, b \in synthesis_cache :
       (a.topic = b.topic /\ a.persona = b.persona) => a = b
  /\ \A row \in synthesis_cache :
       JsonLoads(row.sources) = SourcesOf(row.report.summaries)
  /\ db_call.op = "cache_report"
       => /\ Cardinality(CacheRows(synthesis_cache, db_call.topic, db_call.persona)) = 1
          /\ GetCachedReport(synthesis_cache, db_call.topic, db_call.persona)
               = [report |-> db_call.report, sources |-> db_call.sources]
  /\ (db_call.op = "get_cached_report" /\ db_call.ret # None)
       => db_call.ret.sources = SourcesOf(db_call.ret.report.summaries)

C9_Witness ==
  /\ db_call.op = "cache_report"
  /\ db_call.replaced
  /\ db_call.topic = "AI"
  /\ Len(db_call.sources) >= 2

\* C10: no call of run_agent_task ends with an exception.
C10_NeverRaises == \A r \in Runs : pc[r] # "raised"

\* C11: while a run is in progress, a step in which that run does not move
\* (a step of the other run) leaves the key cursor as it was.
Stays(r) ==
  /\ pc'[r] = pc[r]
  /\ tries'[r] = tries[r]
  /\ urls'[r] = urls[r]
  /\ pass'[r] = pass[r]

C11_CursorIsolated ==
  [][\A r \in Runs :
       (InProgress(r) /\ Stays(r)) => current_key_index' = current_key_index]_vars

\* C12: when both callers' add_url calls for one (url, case-folded topic) pair
\* are over, neither ended with an exception and the store holds exactly one
\* row for the pair.
C12_ConcurrentAddUrl ==
  \A c, d \in Runs :
    (/\ c # d
     /\ add_call[c].pc \in {"done", "raised"}
     /\ add_call[d].pc \in {"done", "raised"}
     /\ add_call[c].url = add_call[d].url
     /\ Lower(add_call[c].topic) = Lower(add_call[d].topic))
      => /\ add_call[c].pc = "done"
         /\ add_call[d].pc = "done"
         /\ Cardinality({i \in 1..Len(seen_urls) :
                           seen_urls[i] = <<add_call[c].url, Lower(add_call[c].topic)>>}) = 1

\* C13: within one run, a URL fetched from the discovery list is not fetched a
\* second time when it also appears in the topic's seen set: a fallback step
\* that fetches the current URL finds it not fetched by the discovery pass.
C13_FetchedAtMostOnce ==
  [][\A r \in Runs :
       (/\ pc[r] = "process"
        /\ pc'[r] \in {"returned", "summarize", "raised"}
        /\ pass[r] = "fallback")
         => <<"discovery", Head(urls[r])>> \notin fetched[r]]_vars

\* C14: in every run that missed the cache, the first completion attempt is
\* made with the first credential, and until that attempt the cursor is 0 and
\* the handle is bound to the first credential, wherever the call found the
\* cursor.
C14_ResetAtRunStart ==
  \A r \in Runs :
    /\ first_key[r] # NoKey => first_key[r] = Keys[1]
    /\ (pc[r] \in {"search", "process", "summarize", "returned"} /\ first_key[r] = NoKey)
         => current_key_index = 0 /\ llm[r] = Keys[1]

C14_Witness ==
  /\ pc[1] = "summarize"
  /\ tries[1] = 0
  /\ first_key[1] = NoKey
  /\ entry_index[1] = NumKeys - 1
  /\ current_key_index = 0

\* C15: a URL whose extractor failed (empty text or any failure result, the
\* scraping error included) is never submitted for a completion: no retry
\* loop runs on the content of a failed extraction.
C15_FailedExtractionSkipped ==
  \A r \in Runs : pc[r] = "summarize" => ~ExtractorFailed(content[r])

\* C16: a synthesis attempt that failed with an error other than
\* quota-exhausted is the run's last attempt: the run has returned the error
\* report with the URLs it summarized, in order, as sources, and the cache
\* holds no record under its key.
C16_SynthesisErrorNotCached ==
  \A r \in Runs :
    (how[r] \in {"running", "synthesis_error"} /\ pc[r] \in {"synthesize", "done"}
       /\ last_outcome[r] = "error")
      => /\ pc[r] = "done"
         /\ how[r] = "synthesis_error"
         /\ result[r].report.kind = "synthesis_error"
         /\ result[r].sources = successful_urls[r]
         /\ result[r].sources = SourcesOf(all_summaries[r])
         /\ result[r].sources # <<>>
         /\ GetCachedReport(synthesis_cache, topic[r], persona[r]) = None

C16_Witness ==
  /\ pc[1] = "done"
  /\ how[1] = "synthesis_error"
  /\ last_outcome[1] = "error"
  /\ tries[1] = NumKeys
  /\ Len(result[1].sources) >= 2

\* C17: a summary attempt that failed with an error other than quota-exhausted
\* is the last attempt for its URL: the call has returned without a summary,
\* the cursor and the handle are where the attempt found them (only the
\* earlier quota failures of the loop rotated), nothing was appended for the
\* URL, and the URL is about to be left for the next one.
C17_SummaryErrorNotRetried ==
  \A r \in Runs :
    (pc[r] \in {"process", "summarize", "returned", "raised"} /\ last_outcome[r] = "error")
      => /\ pc[r] = "returned"
         /\ summary_text[r] = None
         /\ current_key_index = (IndexOfKey(loop_key[r]) + tries[r] - 1) % NumKeys
         /\ llm[r] = GetCurrentKey(current_key_index)
         /\ \A i \in 1..Len(successful_urls[r]) : successful_urls[r][i] # Head(urls[r])
         /\ \A i \in 1..Len(all_summaries[r]) : all_summaries[r][i].source # Head(urls[r])

C17_Witness ==
  /\ pc[1] = "returned"
  /\ last_outcome[1] = "error"
  /\ tries[1] >= 2
  /\ Len(urls[1]) >= 2

\* C18: every key list a constructed ApiKeyManager holds is non-empty, the
\* list of this program is one of them, and in every state the cursor is
\* within 0..N-1, so that get_current_key returns a credential and every
\* handle is bound to one.
C18_CursorValid ==
  /\ \A env \in KeyEnvs : Constructed(env) => Len(DiscoverFrom(env, 1)) >= 1
  /\ \E env \in KeyEnvs : Constructed(env) /\ Keys = DiscoverFrom(env, 1)
  /\ Len(Keys) >= 1
  /\ current_key_index \in 0..Len(Keys) - 1
  /\ GetCurrentKey(current_key_index) # IndexError
  /\ \A r \in Runs : llm[r] # IndexError

C18_Witness ==
  /\ pc[1] = "returned"
  /\ last_outcome[1] = "quota"
  /\ tries[1] = NumKeys
  /\ loop_key[1] = Keys[NumKeys]
  /\ current_key_index = NumKeys - 1

\* Rotation as a function, and the cursor inside and at the end of a loop.
C19_RotationInLoop ==
  /\ \A c \in 0..NumKeys - 1 :
       NextKeyIndex(c) = (c + 1) % NumKeys /\ Rotate(c, NumKeys) = c
  /\ \A r \in Runs :
       /\ pc[r] \in {"summarize", "synthesize"}
            => /\ current_key_index = (IndexOfKey(loop_key[r]) + tries[r]) % NumKeys
               /\ llm[r] = GetCurrentKey(current_key_index)
       /\ (pc[r] = "returned" /\ last_outcome[r] = "quota")
            => /\ tries[r] = NumKeys
               /\ llm[r] = loop_key[r]
               /\ GetCurrentKey(current_key_index) = loop_key[r]

\* Between one URL's retry loop and the next, handle and cursor stay put.
C19_HandleCarriedOver ==
  \A r \in Runs :
    (pc[r] \in {"returned", "process"} /\ pc'[r] \in {"returned", "process", "summarize"})
      => /\ llm'[r] = llm[r]
         /\ current_key_index' = current_key_index
         /\ pc'[r] = "summarize" => loop_key'[r] = llm[r]

\* C19: get_next_key moves the cursor from c to (c+1) mod N, and N of them
\* bring it back to c. Inside a retry loop that began on credential k and has
\* failed t times on quota, the cursor is at k's index plus t modulo N and
\* the handle is on that credential, whatever signalled quota before. A loop
\* that ran out of keys leaves cursor and handle on the credential it began
\* with, and between one URL's loop and the next nothing moves them, so the
\* next URL's first attempt uses the credential the abandoned URL's first
\* attempt used.
C19_PureRotation == []C19_RotationInLoop /\ [][C19_HandleCarriedOver]_vars

C19_Witness ==
  /\ provider[1] = "any"
  /\ pc[1] = "returned"
  /\ last_outcome[1] = "quota"
  /\ tries[1] = NumKeys
  /\ loop_key[1] = Keys[1]
  /\ Len(urls[1]) >= 2

C21_HandleAgreesWithCursor ==
  \A r \in Runs :
    /\ pc[r] \in {"summarize", "synthesize"}
         => /\ current_key_index + 1 \in DOMAIN Keys
            /\ llm[r] = Keys[current_key_index + 1]
    /\ (pc[r] \in {"search", "process", "returned"} /\ how[r] = "running")
         => llm[r] = Keys[current_key_index + 1]

C21_Witness ==
  /\ pc[1] = "synthesize"
  /\ tries[1] = 1
  /\ last_outcome[1] = "quota"
  /\ loop_key[1] = Keys[NumKeys]
  /\ current_key_index = 0
  /\ llm[1] = Keys[1]

\* C22: a report returned from the cache for (topic, persona) was synthesized
\* under the directive that this persona resolves to.
C22_CachedReportUnderOwnDirective ==
  \A r \in Runs :
    (pc[r] = "done" /\ how[r] = "cache_hit")
      => result[r].report.instructions = PersonaInstructions(persona[r])

\* The pair is a row of seen_urls; a list without repetition.
Recorded(url, t) == \E i \in 1..Len(seen_urls) : seen_urls[i] = <<url, Lower(t)>>

NoDuplicates(srcs) == \A i, j \in 1..Len(srcs) : srcs[i] = srcs[j] => i = j

\* C23: the sources of every result returned by a run that missed the cache
\* have no duplicates, are the sources of the accumulated summaries in their
\* order, and are all recorded in seen_urls under the case-folded topic; every
\* cache record has a non-empty sources list with the same properties, and
\* the record a run wrote reads back as exactly the report and sources that
\* run returned.
C23_SourcesBackedByStores ==
  /\ \A r \in Runs :
       (pc[r] = "done" /\ how[r] # "cache_hit")
         => /\ NoDuplicates(result[r].sources)
            /\ result[r].sources = SourcesOf(all_summaries[r])
            /\ \A i \in 1..Len(result[r].sources) : Recorded(result[r].sources[i], topic[r])
            /\ how[r] = "synthesized"
                 => GetCachedReport(synthesis_cache, topic[r], persona[r]) = result[r]
  /\ \A row \in synthesis_cache :
       /\ JsonLoads(row.sources) # <<>>
       /\ NoDuplicates(JsonLoads(row.sources))
       /\ JsonLoads(row.sources) = SourcesOf(row.report.summaries)
       /\ \A i \in 1..Len(JsonLoads(row.sources)) :
            Recorded(JsonLoads(row.sources)[i], row.topic)

C23_Witness ==
  /\ pc[1] = "done"
  /\ how[1] = "synthesized"
  /\ topic[1] = "AI"
  /\ pass[1] = "fallback"
  /\ Len(result[1].sources) >= 2

====
